---- MODULE Spec2Model ----
(***************************************************************************)
(* Model of telefy's multi-channel Telegram dispatcher (telegramBot.js,    *)
(* version 1.1.0): the channel registry built at module initialisation,    *)
(* the input validators, channel resolution, the sequential fail-fast      *)
(* dispatch loop of sendTGMessage / sendTGMessageWithButtons, the          *)
(* classification of axios failures, and the command-line tool bin/cli.js  *)
(* that calls the send operations.                                         *)
(*                                                                         *)
(* Strings that the code slices or case-folds (environment keys, channel   *)
(* names, channel selectors) are sequences of one-character strings.       *)
(* Strings that the code only concatenates or compares (tokens, chat ids,  *)
(* URLs, messages) are TLA+ strings.  A message text is represented by     *)
(* its JavaScript type and its length, the only things the code reads.     *)
(* An optional value is <<>> (absent / undefined) or <<v>>.                *)
(***************************************************************************)
EXTENDS Naturals, Integers, Sequences, FiniteSets, TLC

VARIABLES
  env,        \* process.env: sequence of entries, in Object.keys order
  channels,   \* the registry Map: sequence of entries, in insertion order
  initError,  \* <<>> or <<error>> thrown by module initialisation
  pc,         \* per invocation: "idle", "awaiting", "returned", "thrown"
  args,       \* per invocation: the parameters of the running call
  targets,    \* per invocation: targetChannels, in iteration order
  results,    \* per invocation: the local results array
  posts,      \* per invocation: the axios.post calls made, in order
  ret,        \* per invocation: <<>> or <<value the promise resolved to>>
  err,        \* per invocation: <<>> or <<error the promise rejected with>>
  classified, \* <<>> or <<a handleAxiosError call made on its own: arguments and outcome>>
  observed,   \* <<>> or <<the Map last returned by getChannels()>>
  cli         \* the telefy process (bin/cli.js): its arguments, variables, output and exit

vars == <<env, channels, initError, pc, args, targets, results, posts, ret, err, classified,
          observed, cli>>

-----------------------------------------------------------------------------
(* Records.  Every record of the model is built by one of these operators.  *)
(* TLC orders the fields of a record by the first place their names occur   *)
(* in the module and sorts a record built in another order in place, which  *)
(* its worker threads may do to one record at once; so each operator lists  *)
(* its fields in the order in which this section first names them.          *)

\* CHANNEL_<NAME>_TOKEN=token and CHANNEL_<NAME>_CHAT_ID=chatId
definition(NAME, token, chatId) == [NAME |-> NAME, token |-> token, chatId |-> chatId]

\* an entry of the channels Map: the key and { token, chatId, baseUrl }
entry(name, token, chatId, baseUrl) ==
  [name |-> name, token |-> token, chatId |-> chatId, baseUrl |-> baseUrl]

\* class TelegramBotError extends Error
TelegramBotError(message, suggestion) ==
  [name |-> "TelegramBotError", message |-> message, suggestion |-> suggestion]

\* a TypeError thrown by the runtime; it has no suggestion property
TypeError(message) == [name |-> "TypeError", message |-> message, suggestion |-> ""]

\* a key of process.env and its value
variable(key, value) == [key |-> key, value |-> value]

\* what a step that may throw gives: the value, or <<error>> thrown
gives(value)  == [value |-> value, error |-> <<>>]
throws(error) == [value |-> <<>>, error |-> <<error>>]

\* a JavaScript value: its typeof and its length (string) or value (number)
js(type, n) == [type |-> type, n |-> n]

\* the parameters of a send call, defaults applied
parameters(op, text, buttons, channel, parseMode) ==
  [op |-> op, text |-> text, buttons |-> buttons, channel |-> channel, parseMode |-> parseMode]

\* { text, url }
button(text, url) == [text |-> text, url |-> url]

\* a row of buttons: whether it is an array, and its elements
row(isArray, items) == [isArray |-> isArray, items |-> items]

\* the buttons argument: whether it is an array, and its rows
keyboard(isArray, rows) == [isArray |-> isArray, rows |-> rows]

\* the JSON body of the POST; reply_markup is <<>> when the property is absent
body(text, chat_id, parse_mode, reply_markup) ==
  [text |-> text, chat_id |-> chat_id, parse_mode |-> parse_mode, reply_markup |-> reply_markup]

markup(inline_keyboard) == [inline_keyboard |-> inline_keyboard]

\* one axios.post call: the loop's channelName, the arguments, and how it settled
post(channel, url, data, state) == [channel |-> channel, url |-> url, data |-> data, state |-> state]

\* { channel: channelName, response: response.data }
result(channel, response) == [channel |-> channel, response |-> response]

\* response.data of a successful POST
sent(ok, message_id) == [ok |-> ok, message_id |-> message_id]

\* error.response: { status, data }; data is <<>> when the body is null or undefined
httpResponse(status, data) == [data |-> data, status |-> status]

\* the body of an error response: { description }, <<>> when it has no description
apiError(description) == [description |-> description]

\* what axios.post rejects with: error.message, error.response (<<>> when absent)
\* and whether error.request is set
axiosError(message, response, request) ==
  [message |-> message, response |-> response, request |-> request]

\* a call handleAxiosError(error, channel) and what it gave
classification(error, channel, outcome) ==
  [error |-> error, channel |-> channel, outcome |-> outcome]

\* the variables of the argument loop of bin/cli.js; channel is <<>> while it is null
options(buttons, channel, parseMode, messageParts, isAll, raw) ==
  [buttons |-> buttons, channel |-> channel, parseMode |-> parseMode,
   messageParts |-> messageParts, isAll |-> isAll, raw |-> raw]

\* the telefy process: process.argv.slice(2), where it stands ("unstarted", "sending",
\* "exited"), the loop's variables once the loop is through, the text given to the
\* library once it is called, the lines written to stdout and stderr, the exit status
process(argv, phase, parsed, finalMessage, stdout, stderr, exitCode) ==
  [argv |-> argv, phase |-> phase, parsed |-> parsed, finalMessage |-> finalMessage,
   stdout |-> stdout, stderr |-> stderr, exitCode |-> exitCode]

-----------------------------------------------------------------------------
(* Bounds of the model *)

\* text lengths up to MaxTextLen + TextOver are tried
TextOver == 1
\* the largest number of channels an environment configures
MaxChannels == 3

(* Program constants *)

\* if (text.length > 4096)
MaxTextLen == 4096

-----------------------------------------------------------------------------
(* JavaScript string primitives on sequences of characters *)

UPPER == <<"A","B","C","D","E","F","G","H","I","J","K","L","M",
           "N","O","P","Q","R","S","T","U","V","W","X","Y","Z">>
LOWER == <<"a","b","c","d","e","f","g","h","i","j","k","l","m",
           "n","o","p","q","r","s","t","u","v","w","x","y","z">>

\* the place of character c in an alphabet, 0 when it is not in it
IndexIn(c, alphabet) ==
  IF \E j \in 1..Len(alphabet) : alphabet[j] = c
    THEN CHOOSE j \in 1..Len(alphabet) : alphabet[j] = c
    ELSE 0

\* String.prototype.toLowerCase
toLowerCase(s) ==
  [j \in 1..Len(s) |->
     LET u == IndexIn(s[j], UPPER) IN IF u > 0 THEN LOWER[u] ELSE s[j]]

\* String.prototype.toUpperCase
toUpperCase(s) ==
  [j \in 1..Len(s) |->
     LET l == IndexIn(s[j], LOWER) IN IF l > 0 THEN UPPER[l] ELSE s[j]]

\* String.prototype.startsWith
startsWith(s, p) == Len(p) <= Len(s) /\ SubSeq(s, 1, Len(p)) = p

\* String.prototype.endsWith
endsWith(s, p) == Len(p) <= Len(s) /\ SubSeq(s, Len(s) - Len(p) + 1, Len(s)) = p

\* String.prototype.slice(from, to) with from >= 0 and to < 0 (counted from the end)
slice(s, from, to) ==
  LET first == IF from > Len(s) THEN Len(s) ELSE from
      last  == IF Len(s) + to < 0 THEN 0 ELSE Len(s) + to
  IN  IF last <= first THEN <<>> ELSE SubSeq(s, first + 1, last)

\* the TLA+ string a sequence of characters spells
RECURSIVE Str(_)
Str(s) == IF s = <<>> THEN "" ELSE Head(s) \o Str(Tail(s))

\* Array.prototype.join over TLA+ strings
RECURSIVE join(_, _)
join(parts, sep) ==
  IF parts = <<>> THEN ""
  ELSE IF Len(parts) = 1 THEN parts[1]
  ELSE parts[1] \o sep \o join(Tail(parts), sep)

\* Array.prototype.includes
includes(list, v) == \E j \in 1..Len(list) : list[j] = v

\* a default parameter value applies when the argument is undefined
default(arg, d) == IF arg = <<>> THEN d ELSE arg[1]

\* value || d for an optional string: d when the value is undefined or empty
orElse(value, d) == IF value = <<>> \/ value = <<"">> THEN d ELSE value[1]

-----------------------------------------------------------------------------
(* Module initialisation: the channel registry *)

CHANNEL_ == <<"C","H","A","N","N","E","L","_">>
_TOKEN   == <<"_","T","O","K","E","N">>
_CHAT_ID == <<"_","C","H","A","T","_","I","D">>

\* process.env[key]: <<>> when the key is not set
envGet(e, key) ==
  IF \E j \in 1..Len(e) : e[j].key = key
    THEN <<e[CHOOSE j \in 1..Len(e) : e[j].key = key].value>>
    ELSE <<>>

\* Map.prototype.has
mapHas(m, name) == \E j \in 1..Len(m) : m[j].name = name

\* Map.prototype.get, for a key the map has
mapGet(m, name) == m[CHOOSE j \in 1..Len(m) : m[j].name = name]

\* Map.prototype.set: an existing key keeps its place, a new key goes last
mapSet(m, e) ==
  IF mapHas(m, e.name)
    THEN [j \in 1..Len(m) |-> IF m[j].name = e.name THEN e ELSE m[j]]
    ELSE Append(m, e)

\* [...map.keys()]
mapKeys(m) == [j \in 1..Len(m) |-> m[j].name]

RECURSIVE loadChannelsAllowEmpty(_, _, _)
loadChannelsAllowEmpty(e, k, acc) ==
  IF k > Len(e)
    THEN gives(acc)
  ELSE LET key == e[k].key IN
    IF startsWith(key, CHANNEL_) /\ endsWith(key, _TOKEN)
      THEN LET channelName == toLowerCase(slice(key, 8, -6))
               token       == e[k].value
               chatIdKey   == CHANNEL_ \o toUpperCase(channelName) \o _CHAT_ID
               chatId      == envGet(e, chatIdKey)
           IN  IF token = ""
                 THEN throws(TelegramBotError(
                        "Invalid token for channel \"" \o Str(channelName) \o "\"",
                        "Ensure " \o Str(key) \o " is set in your .env file."))
               ELSE IF chatId = <<>> \/ chatId = <<"">>
                 THEN throws(TelegramBotError(
                        "Missing chat ID for channel \"" \o Str(channelName) \o "\"",
                        "Set " \o Str(chatIdKey) \o " in your .env file. See .env.sample for details."))
               ELSE loadChannelsAllowEmpty(e, k + 1,
                      mapSet(acc, entry(channelName, token, chatId[1],
                                        "https://api.telegram.org/bot" \o token)))
      ELSE loadChannelsAllowEmpty(e, k + 1, acc)

RECURSIVE loadChannelsSkipIncomplete(_, _, _)
loadChannelsSkipIncomplete(e, k, acc) ==
  IF k > Len(e)
    THEN IF Len(acc) = 0
           THEN throws(TelegramBotError("No channels configured",
                  "Add at least one channel with CHANNEL_<name>_TOKEN and CHANNEL_<name>_CHAT_ID in your .env file. See .env.sample."))
           ELSE gives(acc)
  ELSE LET key == e[k].key IN
    IF startsWith(key, CHANNEL_) /\ endsWith(key, _TOKEN)
      THEN LET channelName == toLowerCase(slice(key, 8, -6))
               token       == e[k].value
               chatIdKey   == CHANNEL_ \o toUpperCase(channelName) \o _CHAT_ID
               chatId      == envGet(e, chatIdKey)
           IN  IF token = "" \/ chatId = <<>> \/ chatId = <<"">>
                 THEN loadChannelsSkipIncomplete(e, k + 1, acc)
               ELSE loadChannelsSkipIncomplete(e, k + 1,
                      mapSet(acc, entry(channelName, token, chatId[1],
                                        "https://api.telegram.org/bot" \o token)))
      ELSE loadChannelsSkipIncomplete(e, k + 1, acc)

RECURSIVE loadChannelsUnchecked(_, _, _)
loadChannelsUnchecked(e, k, acc) ==
  IF k > Len(e)
    THEN IF Len(acc) = 0
           THEN throws(TelegramBotError("No channels configured",
                  "Add at least one channel with CHANNEL_<name>_TOKEN and CHANNEL_<name>_CHAT_ID in your .env file. See .env.sample."))
           ELSE gives(acc)
  ELSE LET key == e[k].key IN
    IF startsWith(key, CHANNEL_) /\ endsWith(key, _TOKEN)
      THEN LET channelName == toLowerCase(slice(key, 8, -6))
               token       == e[k].value
               chatIdKey   == CHANNEL_ \o toUpperCase(channelName) \o _CHAT_ID
               chatId      == envGet(e, chatIdKey)
           IN  loadChannelsUnchecked(e, k + 1,
                      mapSet(acc, entry(channelName, token, orElse(chatId, ""),
                                        "https://api.telegram.org/bot" \o token)))
      ELSE loadChannelsUnchecked(e, k + 1, acc)

\* the for loop over Object.keys(process.env), from key k on, and the size check:
\* the Map built, or the error thrown
RECURSIVE loadChannels(_, _, _)
loadChannels(e, k, acc) ==
  IF k > Len(e)
    THEN IF Len(acc) = 0
           THEN throws(TelegramBotError("No channels configured",
                  "Add at least one channel with CHANNEL_<name>_TOKEN and CHANNEL_<name>_CHAT_ID in your .env file. See .env.sample."))
           ELSE gives(acc)
  ELSE LET key == e[k].key IN
    IF startsWith(key, CHANNEL_) /\ endsWith(key, _TOKEN)
      THEN LET channelName == toLowerCase(slice(key, 8, -6))
               token       == e[k].value
               chatIdKey   == CHANNEL_ \o toUpperCase(channelName) \o _CHAT_ID
               chatId      == envGet(e, chatIdKey)
           IN  IF token = ""
                 THEN throws(TelegramBotError(
                        "Invalid token for channel \"" \o Str(channelName) \o "\"",
                        "Ensure " \o Str(key) \o " is set in your .env file."))
               ELSE IF chatId = <<>> \/ chatId = <<"">>
                 THEN throws(TelegramBotError(
                        "Missing chat ID for channel \"" \o Str(channelName) \o "\"",
                        "Set " \o Str(chatIdKey) \o " in your .env file. See .env.sample for details."))
               ELSE loadChannels(e, k + 1,
                      mapSet(acc, entry(channelName, token, chatId[1],
                                        "https://api.telegram.org/bot" \o token)))
      ELSE loadChannels(e, k + 1, acc)

-----------------------------------------------------------------------------
(* JavaScript values that the validators inspect *)

JsString(n)  == js("string", n)
JsNumber(n)  == js("number", n)
JsUndefined  == js("undefined", 0)
JsObject     == js("object", 0)

\* ToBoolean: what !v negates
truthy(v) ==
  CASE v.type = "string" -> v.n > 0
    [] v.type = "number" -> v.n # 0
    [] v.type = "object" -> TRUE
    [] OTHER             -> FALSE

-----------------------------------------------------------------------------
(* Input validation: <<>> when the inputs pass, <<error>> for the error thrown *)

validParseModes == <<"Markdown", "HTML", "MarkdownV2">>

textMissing ==
  TelegramBotError("Text parameter must be a non-empty string",
                   "Provide a valid message text.")

textTooLong ==
  TelegramBotError("Message text exceeds 4096 characters",
                   "Shorten the message to 4096 characters or less.")

invalidParseMode(parseMode) ==
  TelegramBotError("Invalid parseMode: " \o parseMode,
                   "Use one of: " \o join(validParseModes, ", ") \o ".")

validateInputsLimitInclusive(text, parseMode) ==
  IF ~truthy(text) \/ text.type # "string" THEN <<textMissing>>
  ELSE IF text.n >= MaxTextLen THEN <<textTooLong>>
  ELSE IF ~includes(validParseModes, parseMode) THEN <<invalidParseMode(parseMode)>>
  ELSE <<>>

validateInputsNoLimit(text, parseMode) ==
  IF ~truthy(text) \/ text.type # "string" THEN <<textMissing>>
  ELSE IF ~includes(validParseModes, parseMode) THEN <<invalidParseMode(parseMode)>>
  ELSE <<>>

validateInputsAnyCase(text, parseMode) ==
  IF ~truthy(text) \/ text.type # "string" THEN <<textMissing>>
  ELSE IF text.n > MaxTextLen THEN <<textTooLong>>
  ELSE IF ~includes(validParseModes \o <<"markdown", "html", "markdownv2">>, parseMode)
    THEN <<invalidParseMode(parseMode)>>
  ELSE <<>>

validateInputs(text, parseMode) ==
  IF ~truthy(text) \/ text.type # "string" THEN <<textMissing>>
  ELSE IF text.n > MaxTextLen THEN <<textTooLong>>
  ELSE IF ~includes(validParseModes, parseMode) THEN <<invalidParseMode(parseMode)>>
  ELSE <<>>

validateRowTextOnly(r) ==
  IF ~r.isArray
    THEN <<TelegramBotError("Each button row must be an array",
                            "Ensure buttons is an array of arrays.")>>
  ELSE IF \E j \in 1..Len(r.items) : ~truthy(r.items[j].text)
    THEN <<TelegramBotError("Each button must have text and url properties",
                            "Example: { text: \"Visit\", url: \"https://example.com\" }.")>>
  ELSE <<>>

\* the body of the loop over the rows, for one row
validateRow(r) ==
  IF ~r.isArray
    THEN <<TelegramBotError("Each button row must be an array",
                            "Ensure buttons is an array of arrays.")>>
  ELSE IF \E j \in 1..Len(r.items) : ~truthy(r.items[j].text) \/ ~truthy(r.items[j].url)
    THEN <<TelegramBotError("Each button must have text and url properties",
                            "Example: { text: \"Visit\", url: \"https://example.com\" }.")>>
  ELSE <<>>

validateButtons(buttons) ==
  IF ~buttons.isArray
    THEN <<TelegramBotError("Buttons must be an array of arrays",
                            "Provide buttons in the format: [[{ text: \"Button\", url: \"https://example.com\" }]].")>>
  ELSE IF \E r \in 1..Len(buttons.rows) : validateRow(buttons.rows[r]) # <<>>
    THEN validateRow(buttons.rows[CHOOSE r \in 1..Len(buttons.rows) :
                       /\ validateRow(buttons.rows[r]) # <<>>
                       /\ \A q \in 1..(r - 1) : validateRow(buttons.rows[q]) = <<>>])
  ELSE <<>>

-----------------------------------------------------------------------------
(* Channel resolution: the Map returned, or the error thrown *)

all == <<"a", "l", "l">>

channelNotFound(channelName) ==
  TelegramBotError(
    "Channel \"" \o Str(channelName) \o "\" not found",
    "Available channels: "
      \o join([j \in 1..Len(channels) |-> Str(mapKeys(channels)[j])], ", ")
      \o ". Check your .env file.")

getTargetChannelsCaseSensitive(channel) ==
  IF channel = all THEN gives(channels)
  ELSE IF ~mapHas(channels, channel) THEN throws(channelNotFound(channel))
  ELSE gives(<<mapGet(channels, channel)>>)

getTargetChannelsFallback(channel) ==
  IF channel = all \/ ~mapHas(channels, toLowerCase(channel)) THEN gives(channels)
  ELSE gives(<<mapGet(channels, toLowerCase(channel))>>)

getTargetChannelsFoldAll(channel) ==
  LET channelName == toLowerCase(channel) IN
    IF channelName = all THEN gives(channels)
    ELSE IF ~mapHas(channels, channelName) THEN throws(channelNotFound(channelName))
    ELSE gives(<<mapGet(channels, channelName)>>)

getTargetChannels(channel) ==
  IF channel = all THEN gives(channels)
  ELSE LET channelName == toLowerCase(channel) IN
    IF ~mapHas(channels, channelName) THEN throws(channelNotFound(channelName))
    ELSE gives(<<mapGet(channels, channelName)>>)

-----------------------------------------------------------------------------
(* Classification of axios failures *)

\* the TelegramBotError returned, or the TypeError thrown
handleAxiosError(error, channelName) ==
  LET ch == "\"" \o Str(channelName) \o "\"" IN
  IF error.response # <<>>
    THEN LET status == error.response[1].status
             data   == error.response[1].data
         IN  IF data = <<>>
               THEN throws(TypeError("Cannot read properties of undefined (reading 'description')"))
             ELSE LET telegramError == orElse(data[1].description, "Unknown Telegram API error") IN
               CASE status = 400 ->
                    gives(TelegramBotError("Bad Request on channel " \o ch \o ": " \o telegramError,
                      "Check your message content, parse mode, or button format."))
               [] status = 401 ->
                    gives(TelegramBotError("Unauthorized on channel " \o ch \o ": " \o telegramError,
                      "Verify the bot token for channel " \o ch \o " in your .env file."))
               [] status = 403 ->
                    gives(TelegramBotError("Forbidden on channel " \o ch \o ": " \o telegramError,
                      "Ensure the bot has permission to send messages to the chat ID for channel "
                        \o ch \o "."))
               [] status = 404 ->
                    gives(TelegramBotError("Not Found on channel " \o ch \o ": " \o telegramError,
                      "Check if the chat ID for channel " \o ch
                        \o " is valid and the bot is added to the chat."))
               [] OTHER ->
                    gives(TelegramBotError("Telegram API error on channel " \o ch \o ": "
                        \o telegramError \o " (Status: " \o ToString(status) \o ")",
                      "Check the Telegram API documentation for details."))
  ELSE IF error.request
    THEN gives(TelegramBotError(
           "Network error on channel " \o ch \o ": Could not connect to Telegram API",
           "Check your internet connection or try again later."))
  ELSE gives(TelegramBotError(
         "Unexpected error on channel " \o ch \o ": " \o error.message,
         "Check your code or report this issue to the package maintainer."))

\* throw handleAxiosError(error, channelName): what the statement throws
thrown(outcome) == IF outcome.error # <<>> THEN outcome.error[1] ELSE outcome.value

-----------------------------------------------------------------------------
(* The environments, arguments and HTTP outcomes that are tried *)

\* the channel definitions an environment may hold
Pool == <<
  definition(<<"N","E","W","S">>,     "123:ABC", "123456"),
  definition(<<"A","L","E","R","T">>, "789:XYZ", "789012"),
  definition(<<"A","L","L">>,         "555:ALL", "555000"),
  definition(<<"O","P","S">>,         "321:OPS", "321000"),
  definition(<<"D","E","V">>,         "654:DEV", "654000") >>

PATH == variable(<<"P","A","T","H">>, "/usr/bin")

tokenOf(d)  == variable(CHANNEL_ \o d.NAME \o _TOKEN, d.token)
chatIdOf(d) == variable(CHANNEL_ \o d.NAME \o _CHAT_ID, d.chatId)

\* the first n definitions of the pool, token before chat id
RECURSIVE envForward(_)
envForward(n) ==
  IF n = 0 THEN <<PATH>>
  ELSE envForward(n - 1) \o <<tokenOf(Pool[n]), chatIdOf(Pool[n])>>

\* the first n definitions of the pool, last first, chat id before token
RECURSIVE envBackward(_)
envBackward(n) ==
  IF n = 0 THEN <<>>
  ELSE <<chatIdOf(Pool[n]), tokenOf(Pool[n])>> \o envBackward(n - 1)

ChannelCounts == {n \in 1..MaxChannels : n <= Len(Pool)}

News == <<"N","e","w","s">>

\* keys that resemble a token key
CHANNEL_TOKEN        == <<"C","H","A","N","N","E","L","_","T","O","K","E","N">>
MY_CHANNEL_OPS_TOKEN == <<"M","Y","_">> \o CHANNEL_ \o Pool[4].NAME \o _TOKEN
CHANNEL_OPS_TOKENS   == CHANNEL_ \o Pool[4].NAME \o _TOKEN \o <<"S">>
channel_dev_token    == toLowerCase(CHANNEL_ \o Pool[5].NAME \o _TOKEN)

\* environments whose keys are not all of the documented upper-case form
OddEnvs ==
  { \* the two affixes overlap in CHANNEL_TOKEN
    <<tokenOf(Pool[1]), chatIdOf(Pool[1]), variable(CHANNEL_TOKEN, "999:TOK")>>,
    <<variable(CHANNEL_TOKEN, "999:TOK"), variable(CHANNEL_ \o _CHAT_ID, "999000"),
      tokenOf(Pool[1]), chatIdOf(Pool[1])>>,
    <<variable(CHANNEL_TOKEN, "999:TOK"), variable(CHANNEL_ \o _CHAT_ID, "999000")>>,
    \* a name in mixed case, with its chat id under the same and under the upper-case name
    <<variable(CHANNEL_ \o News \o _TOKEN, "123:ABC"),
      variable(CHANNEL_ \o News \o _CHAT_ID, "123456")>>,
    <<variable(CHANNEL_ \o News \o _TOKEN, "123:ABC"), chatIdOf(Pool[1])>>,
    \* two token keys whose names differ in case only
    <<tokenOf(Pool[1]), chatIdOf(Pool[1]), tokenOf(Pool[2]), chatIdOf(Pool[2]),
      variable(CHANNEL_ \o News \o _TOKEN, "111:NEW")>>,
    \* keys of other forms only
    <<PATH, variable(MY_CHANNEL_OPS_TOKEN, "321:OPS"), variable(channel_dev_token, "654:DEV"),
      chatIdOf(Pool[4])>>,
    \* keys of other forms beside one definition
    <<variable(MY_CHANNEL_OPS_TOKEN, "321:OPS"), variable(CHANNEL_OPS_TOKENS, "321:OPS"),
      variable(channel_dev_token, "654:DEV"), chatIdOf(Pool[4]), chatIdOf(Pool[5]),
      tokenOf(Pool[2]), chatIdOf(Pool[2])>> }

Envs ==
  {envForward(n) : n \in ChannelCounts}
  \cup {envBackward(n) : n \in {m \in ChannelCounts : m + 1 \notin ChannelCounts}}
  \cup { <<PATH>>,                                                      \* no channel
         <<tokenOf(Pool[1]), chatIdOf(Pool[1]), tokenOf(Pool[2])>>,     \* no chat id
         <<variable(CHANNEL_ \o Pool[1].NAME \o _TOKEN, ""), chatIdOf(Pool[1])>>,
                                                                        \* empty token
         <<tokenOf(Pool[1]), chatIdOf(Pool[1]), tokenOf(Pool[2]),       \* empty chat id
           variable(CHANNEL_ \o Pool[2].NAME \o _CHAT_ID, "")>>,
         <<tokenOf(Pool[1]), chatIdOf(Pool[1]), tokenOf(Pool[2]),       \* two incomplete
           variable(CHANNEL_ \o Pool[4].NAME \o _TOKEN, ""), chatIdOf(Pool[4])>> }
  \cup OddEnvs

TextLens == {0, 1} \cup {n \in 0..(MaxTextLen + TextOver) : n >= MaxTextLen}

Texts == {JsString(n) : n \in TextLens} \cup {JsUndefined, JsNumber(5), JsObject}

\* the channel argument: absent, or a selector
Selectors ==
  { <<>>, <<all>>, << <<"A","L","L">> >>, << <<"A","l","l">> >>, << <<"n","e","w","s">> >>,
    << <<"N","e","w","s">> >>, << <<"a","l","e","r","t">> >>,
    << <<"U","n","k","n","o","w","n">> >> }

\* the parseMode argument: absent, or a string
ParseModes ==
  { <<>>, <<"Markdown">>, <<"HTML">>, <<"MarkdownV2">>, <<"markdown">>, <<"INVALID">> }

Visit     == button(JsString(5), JsString(19))
NoUrl     == button(JsString(5), JsUndefined)
EmptyText == button(JsString(0), JsString(19))
ZeroUrl   == button(JsString(5), JsNumber(0))

\* the default value of the buttons parameter, [[]]
defaultButtons == keyboard(TRUE, <<row(TRUE, <<>>)>>)

\* the buttons argument: absent, or a value
ButtonArgs ==
  { <<>>,
    <<keyboard(TRUE, <<row(TRUE, <<Visit, Visit>>), row(TRUE, <<Visit>>)>>)>>,
    <<keyboard(FALSE, <<>>)>>,
    <<keyboard(TRUE, <<row(TRUE, <<Visit>>), row(FALSE, <<>>)>>)>>,
    <<keyboard(TRUE, <<row(TRUE, <<NoUrl>>)>>)>>,
    <<keyboard(TRUE, <<row(TRUE, <<Visit>>), row(TRUE, <<Visit, EmptyText>>)>>)>>,
    <<keyboard(TRUE, <<row(FALSE, <<>>), row(TRUE, <<NoUrl>>)>>)>>,
    <<keyboard(TRUE, <<row(TRUE, <<Visit, ZeroUrl>>), row(FALSE, <<>>)>>)>> }

\* response.data of a POST that succeeds
Responses == { sent(TRUE, m) : m \in {"m1", "m2"} }

httpError(status, description) ==
  axiosError("Request failed with status code " \o ToString(status),
             <<httpResponse(status, <<apiError(description)>>)>>, TRUE)

\* what axios.post rejects with, the peer being the Telegram API (a JSON object
\* with a description), a gateway (a body without description) or unreachable
AxiosErrors ==
  { httpError(400, <<"Bad Request: chat not found">>), httpError(401, <<"Unauthorized">>),
    httpError(401, <<>>), httpError(403, <<"Forbidden: bot was blocked by the user">>),
    httpError(404, <<"Not Found">>), httpError(500, <<"Internal Server Error">>),
    httpError(429, <<>>), httpError(400, <<"">>),
    axiosError("Network Error", <<>>, TRUE),
    axiosError("Unexpected failure", <<>>, FALSE),
    axiosError("", <<>>, FALSE) }

\* a response whose body is not an object (null), as error.response.data
bodyless(status) ==
  axiosError("Request failed with status code " \o ToString(status),
             <<httpResponse(status, <<>>)>>, TRUE)

\* the failures handleAxiosError may be given
Failures == AxiosErrors \cup {bodyless(400), bodyless(502)}

\* the channel names handleAxiosError may be given
ChannelNames == {toLowerCase(Pool[n].NAME) : n \in 1..Len(Pool)}

-----------------------------------------------------------------------------
(* State *)

\* the invocation slots; the sequential specification runs one caller
Invocations == {1, 2}
Sequential  == {1}

NoParameters == parameters("none", JsUndefined, defaultButtons, all, "")

Init ==
  /\ env \in Envs
  /\ LET loaded == loadChannels(env, 1, <<>>) IN
       /\ channels = loaded.value
       /\ initError = loaded.error
  /\ pc = [i \in Invocations |-> "idle"]
  /\ args = [i \in Invocations |-> NoParameters]
  /\ targets = [i \in Invocations |-> <<>>]
  /\ results = [i \in Invocations |-> <<>>]
  /\ posts = [i \in Invocations |-> <<>>]
  /\ ret = [i \in Invocations |-> <<>>]
  /\ err = [i \in Invocations |-> <<>>]
  /\ classified = <<>>
  /\ observed = <<>>
  /\ cli = process(<<>>, "unstarted", <<>>, <<>>, <<>>, <<>>, <<>>)

-----------------------------------------------------------------------------
(* The send operations.  A step is what runs between two suspensions of the *)
(* async function: from the call to the first await, and from the end of an *)
(* await to the next one, or to the return or the throw.                    *)

requestOmitEmpty(a, channelName, config) ==
  post(channelName,
       config.baseUrl \o "/sendMessage",
       body(a.text, config.chatId, a.parseMode,
            IF a.op = "sendTGMessageWithButtons"
                 /\ \E r \in 1..Len(a.buttons.rows) : a.buttons.rows[r].items # <<>>
              THEN <<markup(a.buttons)>> ELSE <<>>),
       "pending")

\* the axios.post call of one loop iteration
request(a, channelName, config) ==
  post(channelName,
       config.baseUrl \o "/sendMessage",
       body(a.text, config.chatId, a.parseMode,
            IF a.op = "sendTGMessageWithButtons" THEN <<markup(a.buttons)>> ELSE <<>>),
       "pending")

\* post k of ps has settled
settle(ps, k, state) == [ps EXCEPT ![k].state = state]

\* the async function throws: its promise rejects with e
reject(i, e) ==
  /\ pc' = [pc EXCEPT ![i] = "thrown"]
  /\ err' = [err EXCEPT ![i] = <<e>>]
  /\ ret' = ret

dispatchParallel(i, a, tgts, res, ps) ==
  IF Len(ps) < Len(tgts)
    THEN /\ posts' = [posts EXCEPT ![i] =
                        ps \o [j \in 1..(Len(tgts) - Len(ps)) |->
                                 request(a, tgts[Len(ps) + j].name, tgts[Len(ps) + j])]]
         /\ results' = [results EXCEPT ![i] = res]
         /\ pc' = [pc EXCEPT ![i] = "awaiting"]
         /\ UNCHANGED <<ret, err>>
    ELSE /\ posts' = [posts EXCEPT ![i] = ps]
         /\ results' = [results EXCEPT ![i] = res]
         /\ pc' = [pc EXCEPT ![i] = "returned"]
         /\ ret' = [ret EXCEPT ![i] = <<res>>]
         /\ err' = err

\* the head of the for loop over targetChannels, Len(ps) iterations having begun:
\* the next channel's POST is issued and awaited, or the results are returned
dispatch(i, a, tgts, res, ps) ==
  IF Len(ps) < Len(tgts)
    THEN /\ posts' = [posts EXCEPT ![i] =
                        Append(ps, request(a, tgts[Len(ps) + 1].name, tgts[Len(ps) + 1]))]
         /\ results' = [results EXCEPT ![i] = res]
         /\ pc' = [pc EXCEPT ![i] = "awaiting"]
         /\ UNCHANGED <<ret, err>>
    ELSE /\ posts' = [posts EXCEPT ![i] = ps]
         /\ results' = [results EXCEPT ![i] = res]
         /\ pc' = [pc EXCEPT ![i] = "returned"]
         /\ ret' = [ret EXCEPT ![i] = <<res>>]
         /\ err' = err

invokeResolveFirst(i, a, invalid) ==
  /\ pc[i] = "idle"
  /\ initError = <<>>
  /\ args' = [args EXCEPT ![i] = a]
  /\ LET targetChannels == getTargetChannels(a.channel) IN
       IF targetChannels.error # <<>>
         THEN reject(i, targetChannels.error[1]) /\ UNCHANGED <<targets, results, posts>>
       ELSE IF invalid # <<>>
         THEN reject(i, invalid[1]) /\ UNCHANGED <<targets, results, posts>>
       ELSE /\ targets' = [targets EXCEPT ![i] = targetChannels.value]
            /\ dispatch(i, a, targetChannels.value, <<>>, <<>>)
  /\ UNCHANGED <<env, channels, initError, classified, observed>>

\* a call with parameters a whose validation gave `invalid` (<<>> or <<error>>):
\* the error is thrown, or the targets are resolved and the loop is entered; what
\* becomes of the caller (cli) is the caller's to say
invoke(i, a, invalid) ==
  /\ pc[i] = "idle"
  /\ initError = <<>>
  /\ args' = [args EXCEPT ![i] = a]
  /\ IF invalid # <<>>
       THEN reject(i, invalid[1]) /\ UNCHANGED <<targets, results, posts>>
       ELSE LET targetChannels == getTargetChannels(a.channel) IN
            IF targetChannels.error # <<>>
              THEN reject(i, targetChannels.error[1]) /\ UNCHANGED <<targets, results, posts>>
              ELSE /\ targets' = [targets EXCEPT ![i] = targetChannels.value]
                   /\ dispatch(i, a, targetChannels.value, <<>>, <<>>)
  /\ UNCHANGED <<env, channels, initError, classified, observed>>

sendTGMessageUnchecked(i, text, channel, parseMode) ==
  invoke(i, parameters("sendTGMessage", text, defaultButtons,
                       default(channel, all), default(parseMode, "Markdown")), <<>>)

\* sendTGMessage(text, channel = 'all', parseMode = 'Markdown'), up to its first
\* await; buttons is no parameter of this operation
sendTGMessage(i, text, channel, parseMode) ==
  LET a == parameters("sendTGMessage", text, defaultButtons,
                      default(channel, all), default(parseMode, "Markdown"))
  IN  invoke(i, a, validateInputs(a.text, a.parseMode))

\* sendTGMessageWithButtons(text, buttons = [[]], channel = 'all',
\* parseMode = 'Markdown'), up to its first await
sendTGMessageWithButtons(i, text, buttons, channel, parseMode) ==
  LET a == parameters("sendTGMessageWithButtons", text, default(buttons, defaultButtons),
                      default(channel, all), default(parseMode, "Markdown"))
      invalidInputs == validateInputs(a.text, a.parseMode)
  IN  invoke(i, a, IF invalidInputs # <<>> THEN invalidInputs ELSE validateButtons(a.buttons))

postResolvedShared(i, data) ==
  /\ pc[i] = "awaiting"
  /\ LET k      == Len(posts[i])
         pushed == [j \in Invocations |->
                      IF pc[j] = "awaiting"
                        THEN Append(results[j], result(posts[i][k].channel, data))
                        ELSE results[j]]
         ps     == settle(posts[i], k, "succeeded")
     IN  IF Len(ps) < Len(targets[i])
           THEN /\ posts' = [posts EXCEPT ![i] =
                               Append(ps, request(args[i], targets[i][Len(ps) + 1].name,
                                                  targets[i][Len(ps) + 1]))]
                /\ results' = pushed
                /\ UNCHANGED <<pc, ret, err>>
           ELSE /\ posts' = [posts EXCEPT ![i] = ps]
                /\ results' = pushed
                /\ pc' = [pc EXCEPT ![i] = "returned"]
                /\ ret' = [ret EXCEPT ![i] = <<pushed[i]>>]
                /\ err' = err
  /\ UNCHANGED <<env, channels, initError, classified, cli, observed, args, targets>>

\* the awaited POST succeeds with response.data = data: results.push, next iteration
postResolved(i, data) ==
  /\ pc[i] = "awaiting"
  /\ LET k == Len(posts[i]) IN
       dispatch(i, args[i], targets[i],
                Append(results[i], result(posts[i][k].channel, data)),
                settle(posts[i], k, "succeeded"))
  /\ UNCHANGED <<env, channels, initError, classified, cli, observed, args, targets>>

postRejectedContinue(i, error) ==
  /\ pc[i] = "awaiting"
  /\ dispatch(i, args[i], targets[i], results[i],
              settle(posts[i], Len(posts[i]), "failed"))
  /\ UNCHANGED <<env, channels, initError, classified, cli, observed, args, targets>>

postRejectedPartial(i, error) ==
  /\ pc[i] = "awaiting"
  /\ posts' = [posts EXCEPT ![i] = settle(posts[i], Len(posts[i]), "failed")]
  /\ pc' = [pc EXCEPT ![i] = "returned"]
  /\ ret' = [ret EXCEPT ![i] = <<results[i]>>]
  /\ UNCHANGED <<env, channels, initError, classified, cli, observed, args, targets, results, err>>

postRejectedRetry(i, error) ==
  /\ pc[i] = "awaiting"
  /\ LET k      == Len(posts[i])
         failed == settle(posts[i], k, "failed")
     IN  IF k = 1 \/ posts[i][k - 1].channel # posts[i][k].channel
           THEN /\ posts' = [posts EXCEPT ![i] = Append(failed, posts[i][k])]
                /\ UNCHANGED <<pc, ret, err>>
           ELSE /\ posts' = [posts EXCEPT ![i] = failed]
                /\ reject(i, thrown(handleAxiosError(error, posts[i][k].channel)))
  /\ UNCHANGED <<env, channels, initError, classified, cli, observed, args, targets, results>>

postRejectedRestart(i, error) ==
  /\ pc[i] = "awaiting"
  /\ posts' = [posts EXCEPT ![i] = <<request(args[i], targets[i][1].name, targets[i][1])>>]
  /\ results' = [results EXCEPT ![i] = <<>>]
  /\ UNCHANGED <<env, channels, initError, classified, cli, observed, args, targets, pc, ret, err>>

\* the awaited POST fails with `error`: the catch block throws the classified error
postRejected(i, error) ==
  /\ pc[i] = "awaiting"
  /\ LET k == Len(posts[i]) IN
       /\ posts' = [posts EXCEPT ![i] = settle(posts[i], k, "failed")]
       /\ reject(i, thrown(handleAxiosError(error, posts[i][k].channel)))
  /\ UNCHANGED <<env, channels, initError, classified, cli, observed, args, targets, results>>

\* the caller's .then / .catch has consumed the settled promise: the invocation's
\* locals are gone and the caller may call again
settled(i) ==
  /\ pc[i] \in {"returned", "thrown"}
  /\ pc' = [pc EXCEPT ![i] = "idle"]
  /\ args' = [args EXCEPT ![i] = NoParameters]
  /\ targets' = [targets EXCEPT ![i] = <<>>]
  /\ results' = [results EXCEPT ![i] = <<>>]
  /\ posts' = [posts EXCEPT ![i] = <<>>]
  /\ ret' = [ret EXCEPT ![i] = <<>>]
  /\ err' = [err EXCEPT ![i] = <<>>]
  /\ UNCHANGED <<env, channels, initError, classified, cli, observed>>

getChannelsReversed ==
  /\ initError = <<>>
  /\ channels' = [j \in 1..Len(channels) |-> channels[Len(channels) + 1 - j]]
  /\ observed' = <<channels'>>
  /\ UNCHANGED <<env, initError, pc, args, targets, results, posts, ret, err, classified, cli>>

\* getChannels() returns the live Map
getChannels ==
  /\ initError = <<>>
  /\ observed' = <<channels>>
  /\ UNCHANGED <<env, channels, initError, pc, args, targets, results, posts, ret, err, classified, cli>>

\* a caller that has no call running makes one, with any arguments
callSendTGMessage(i) ==
  /\ pc[i] = "idle"
  /\ \E text \in Texts, channel \in Selectors, parseMode \in ParseModes :
       sendTGMessage(i, text, channel, parseMode)
  /\ UNCHANGED cli

callSendTGMessageWithButtons(i) ==
  /\ pc[i] = "idle"
  /\ \E text \in Texts, buttons \in ButtonArgs, channel \in Selectors, parseMode \in ParseModes :
       sendTGMessageWithButtons(i, text, buttons, channel, parseMode)
  /\ UNCHANGED cli

Next ==
  \/ \E i \in Sequential : callSendTGMessage(i)
  \/ \E i \in Sequential : callSendTGMessageWithButtons(i)
  \/ \E i \in Sequential, data \in Responses : postResolved(i, data)
  \/ \E i \in Sequential, error \in AxiosErrors : postRejected(i, error)
  \/ \E i \in Sequential : settled(i)
  \/ getChannels

Spec == Init /\ [][Next]_vars

-----------------------------------------------------------------------------
(* Every POST that is issued settles: axios resolves or rejects its promise, *)
(* and the continuation of the awaiting call then runs.                      *)

postSettles(i) ==
  \/ \E data \in Responses : postResolved(i, data)
  \/ \E error \in AxiosErrors : postRejected(i, error)

SpecLive == Spec /\ \A i \in Sequential : WF_vars(postSettles(i))

-----------------------------------------------------------------------------
(* Two callers at once: a caller starts a send while another send is        *)
(* awaiting its POST, as sendTelegramNotification does, and the event loop   *)
(* runs the continuations in the order in which the POSTs settle.           *)

ConcurrentTexts     == {JsString(1), JsString(0)}
ConcurrentSelectors == { <<>>, << <<"n","e","w","s">> >>, << <<"U","n","k","n","o","w","n">> >> }
ConcurrentButtons   == { <<>>, <<keyboard(TRUE, <<row(TRUE, <<Visit, Visit>>)>>)>> }
ConcurrentErrors    == { httpError(401, <<"Unauthorized">>), axiosError("Network Error", <<>>, TRUE) }

startSendTGMessage(i) ==
  /\ pc[i] = "idle"
  /\ \E text \in ConcurrentTexts, channel \in ConcurrentSelectors :
       sendTGMessage(i, text, channel, <<>>)
  /\ UNCHANGED cli

startSendTGMessageWithButtons(i) ==
  /\ pc[i] = "idle"
  /\ \E text \in ConcurrentTexts, buttons \in ConcurrentButtons, channel \in ConcurrentSelectors :
       sendTGMessageWithButtons(i, text, buttons, channel, <<>>)
  /\ UNCHANGED cli

NextConcurrent ==
  \/ \E i \in Invocations : startSendTGMessage(i)
  \/ \E i \in Invocations : startSendTGMessageWithButtons(i)
  \/ \E i \in Invocations, data \in Responses : postResolved(i, data)
  \/ \E i \in Invocations, error \in ConcurrentErrors : postRejected(i, error)
  \/ \E i \in Invocations : settled(i)
  \/ getChannels

SpecConcurrent == Init /\ [][NextConcurrent]_vars

-----------------------------------------------------------------------------
(* The classifier on its own: handleAxiosError applied to any failure *)

callHandleAxiosError ==
  /\ initError = <<>>
  /\ \E error \in Failures, channelName \in ChannelNames :
       classified' = <<classification(error, channelName,
                                       handleAxiosError(error, channelName))>>
  /\ UNCHANGED <<env, channels, initError, pc, args, targets, results, posts, ret, err, observed, cli>>

NextClassify == callHandleAxiosError

SpecClassify == Init /\ [][NextClassify]_vars

-----------------------------------------------------------------------------
(* The command-line tool, bin/cli.js.  Its arguments are sequences of       *)
(* characters.  The script runs from its first statement to the first await  *)
(* of the library call in one step, the steps of that call are those of the  *)
(* send operations above, and the continuation of main then reports.         *)

\* String.prototype.split, the separator being one character
RECURSIVE split(_, _)
split(s, sep) ==
  IF \E j \in 1..Len(s) : s[j] = sep
    THEN LET first == CHOOSE j \in 1..Len(s) : s[j] = sep /\ \A m \in 1..(j - 1) : s[m] # sep
         IN  <<SubSeq(s, 1, first - 1)>> \o split(SubSeq(s, first + 1, Len(s)), sep)
    ELSE <<s>>

WhiteSpace == {" ", "\t", "\n"}

\* String.prototype.trim
trim(s) ==
  LET kept == {j \in 1..Len(s) : s[j] \notin WhiteSpace} IN
    IF kept = {} THEN <<>>
    ELSE SubSeq(s, CHOOSE j \in kept : \A m \in kept : j <= m,
                   CHOOSE j \in kept : \A m \in kept : m <= j)

\* Array.prototype.join over sequences of characters
RECURSIVE joinChars(_, _)
joinChars(parts, sep) ==
  IF parts = <<>> THEN <<>>
  ELSE IF Len(parts) = 1 THEN parts[1]
  ELSE parts[1] \o sep \o joinChars(Tail(parts), sep)

\* !v for a string that may be undefined or null
falsy(v) == v = <<>> \/ v[1] = <<>>

dashes       == <<"-", "-">>
channelOpt   == <<"-", "-", "c", "h", "a", "n", "n", "e", "l">>
allOpt       == <<"-", "-", "a", "l", "l">>
parseModeOpt == <<"-", "-", "p", "a", "r", "s", "e", "-", "m", "o", "d", "e">>
buttonOpt    == <<"-", "-", "b", "u", "t", "t", "o", "n">>
rawOpt       == <<"-", "-", "r", "a", "w">>
help         == <<"-", "-", "h", "e", "l", "p">>
h            == <<"-", "h">>

validOptions == {channelOpt, allOpt, parseModeOpt, buttonOpt, rawOpt}

\* let parseMode = 'Markdown' and the other variables before the loop
initialOptions == options(<<>>, <<>>, <<"M", "a", "r", "k", "d", "o", "w", "n">>, <<>>, FALSE, FALSE)

\* the for loop over args, from args[i] on (i counted from 1), the variables being o:
\* the variables at the end of the loop, or the line written to stderr before showUsage()
RECURSIVE argumentLoop(_, _, _)
argumentLoop(a, i, o) ==
  IF i > Len(a) THEN gives(o)
  ELSE IF ~startsWith(a[i], dashes)
    THEN argumentLoop(a, i + 1, [o EXCEPT !.messageParts = Append(@, a[i])])
  ELSE
    LET parts   == split(a[i], "=")
        option  == parts[1]
        value   == IF Len(parts) >= 2 THEN <<parts[2]>> ELSE <<>>
        hasNext == i + 1 <= Len(a) /\ ~startsWith(a[i + 1], dashes)
    IN  IF option \notin validOptions
          THEN throws("Error: Unknown option \"" \o Str(option) \o "\"")
        ELSE IF option = channelOpt
          THEN IF ~falsy(value) THEN argumentLoop(a, i + 1, [o EXCEPT !.channel = value])
               ELSE IF hasNext
                 THEN argumentLoop(a, i + 2, [o EXCEPT !.channel = <<a[i + 1]>>])
               ELSE throws("Error: --channel requires a channel name")
        ELSE IF option = allOpt
          THEN argumentLoop(a, i + 1, [o EXCEPT !.isAll = TRUE, !.channel = <<all>>])
        ELSE IF option = parseModeOpt
          THEN IF ~falsy(value) THEN argumentLoop(a, i + 1, [o EXCEPT !.parseMode = value[1]])
               ELSE IF hasNext
                 THEN argumentLoop(a, i + 2, [o EXCEPT !.parseMode = a[i + 1]])
               ELSE throws("Error: --parse-mode requires a mode (markdown, html, markdownv2)")
        ELSE IF option = buttonOpt
          THEN LET taken       == falsy(value) /\ hasNext
                   buttonValue == IF taken THEN <<a[i + 1]>> ELSE value
               IN  IF falsy(buttonValue)
                     THEN throws("Error: --button requires a value in the format \"text|url\"")
                   ELSE LET fields == split(buttonValue[1], "|")
                            text   == fields[1]
                            url    == IF Len(fields) >= 2 THEN fields[2] ELSE <<>>
                        IN  IF text = <<>> \/ url = <<>>
                              THEN throws("Error: --button format must be \"text|url\"")
                            ELSE argumentLoop(a, IF taken THEN i + 2 ELSE i + 1,
                                   [o EXCEPT !.buttons = Append(@,
                                      row(TRUE, <<button(JsString(Len(text)), JsString(Len(url)))>>))])
        ELSE argumentLoop(a, i + 1, [o EXCEPT !.raw = TRUE])

\* [...channels.keys()].join(', ') || 'none (configure in .env)'
availableChannels ==
  orElse(<<join([j \in 1..Len(channels) |-> Str(mapKeys(channels)[j])], ", ")>>,
         "none (configure in .env)")

\* what showUsage() logs: the synopsis and the list of channels, of the whole text
usage ==
  "Usage: telefy <message> [--channel <name> | --channel=<name> | --all] [--parse-mode <mode>] [--button <text|url>] [--raw]"
    \o " Available channels: " \o availableChannels

\* console.error of `lines`, then showUsage(): the usage is logged and process.exit(1)
showUsage(a, parsed, lines) == process(a, "exited", parsed, <<>>, <<usage>>, lines, <<1>>)

\* if (isAll && channel !== 'all')
conflict(o) == o.isAll /\ o.channel # <<all>>

\* channel after "Default to the only channel if exactly one is configured"
defaultChannel(o) ==
  IF ~o.isAll /\ falsy(o.channel) /\ Len(channels) = 1
    THEN <<mapKeys(channels)[1]>>
    ELSE o.channel

\* parseModes[parseMode.toLowerCase()]: <<>> when the object has no such key
parseModes(parseMode) ==
  LET key == toLowerCase(parseMode) IN
    CASE key = <<"m", "a", "r", "k", "d", "o", "w", "n">> -> <<"Markdown">>
      [] key = <<"h", "t", "m", "l">> -> <<"HTML">>
      [] key = <<"m", "a", "r", "k", "d", "o", "w", "n", "v", "2">> -> <<"MarkdownV2">>
      [] OTHER -> <<>>

\* the character U+0060 (grave accent), which a TLA+ string cannot hold
backtick == "U+0060"

\* the characters of the class [_*[\]()~`>#+=|{}.!@]
escaped == {"_", "*", "[", "]", "(", ")", "~", backtick, ">", "#", "+", "=", "|", "{", "}",
            ".", "!", "@"}

\* message.replace(/([_*[\]()~`>#+=|{}.!@])/g, '\\$1')
RECURSIVE replace(_)
replace(message) ==
  IF message = <<>> THEN <<>>
  ELSE (IF Head(message) \in escaped THEN <<"\\", Head(message)>> ELSE <<Head(message)>>)
         \o replace(Tail(message))

finalMessageAlwaysEscaped(message, parseMode, raw) == replace(message)

\* let finalMessage = message; if (parseMode === 'MarkdownV2' && !raw) ...
finalMessage(message, parseMode, raw) ==
  IF parseMode = "MarkdownV2" /\ ~raw THEN replace(message) ELSE message

\* the script bin/cli.js run with arguments a, up to the first await of main()
telefy(a) ==
  /\ cli.phase = "unstarted"
  /\ initError = <<>>
  /\ pc[1] = "idle"
  /\ LET quiet == UNCHANGED <<env, channels, initError, pc, args, targets, results, posts,
                              ret, err, classified, observed>>
     IN
     IF Len(a) = 0 \/ a[1] = help \/ a[1] = h
       THEN cli' = showUsage(a, <<>>, <<>>) /\ quiet
     ELSE LET loop == argumentLoop(a, 1, initialOptions) IN
     IF loop.error # <<>>
       THEN cli' = showUsage(a, <<>>, loop.error) /\ quiet
     ELSE LET o       == loop.value
              message == trim(joinChars(o.messageParts, <<" ">>))
              channel == defaultChannel(o)
              mode    == parseModes(o.parseMode)
          IN
     IF message = <<>>
       THEN cli' = showUsage(a, <<o>>, <<"Error: Message is required.">>) /\ quiet
     ELSE IF conflict(o)
       THEN cli' = showUsage(a, <<o>>, <<"Error: Cannot use --channel and --all together.">>)
            /\ quiet
     ELSE IF ~o.isAll /\ falsy(channel)
       THEN cli' = showUsage(a, <<o>>,
                     <<"Error: Please specify a channel with --channel <name> or use --all.",
                       "Available channels: " \o availableChannels>>)
            /\ quiet
     ELSE IF mode = <<>>
       THEN cli' = showUsage(a, <<o>>,
                     <<"Error: Invalid parse mode. Use markdown, html, or markdownv2.">>)
            /\ quiet
     ELSE LET final == finalMessage(message, mode[1], o.raw) IN
          /\ cli' = process(a, "sending", <<o>>, <<final>>, <<>>, <<>>, <<>>)
          /\ IF Len(o.buttons) > 0
               THEN sendTGMessageWithButtons(1, JsString(Len(final)),
                      <<keyboard(TRUE, o.buttons)>>, channel, mode)
               ELSE sendTGMessage(1, JsString(Len(final)), channel, mode)

\* `Message sent successfully to channel "${result.channel}"`
successLine(r) == "Message sent successfully to channel \"" \o Str(r.channel) \o "\""

\* the send call has resolved: a line per result, and the process ends
mainReturned ==
  /\ cli.phase = "sending"
  /\ pc[1] = "returned"
  /\ cli' = [cli EXCEPT !.phase = "exited",
                        !.stdout = [j \in 1..Len(ret[1][1]) |-> successLine(ret[1][1][j])],
                        !.exitCode = <<0>>]
  /\ UNCHANGED <<env, channels, initError, pc, args, targets, results, posts, ret, err,
                 classified, observed>>

mainCaughtQuiet ==
  /\ cli.phase = "sending"
  /\ pc[1] = "thrown"
  /\ cli' = [cli EXCEPT !.phase = "exited",
                        !.stderr = <<"Error: " \o err[1][1].message>>,
                        !.exitCode = <<1>>]
  /\ UNCHANGED <<env, channels, initError, pc, args, targets, results, posts, ret, err,
                 classified, observed>>

\* the send call has rejected: the catch block of main
mainCaught ==
  /\ cli.phase = "sending"
  /\ pc[1] = "thrown"
  /\ cli' = [cli EXCEPT !.phase = "exited",
                        !.stderr = <<"Error: " \o err[1][1].message>>
                                     \o IF err[1][1].suggestion # ""
                                          THEN <<"Suggestion: " \o err[1][1].suggestion>>
                                          ELSE <<>>,
                        !.exitCode = <<1>>]
  /\ UNCHANGED <<env, channels, initError, pc, args, targets, results, posts, ret, err,
                 classified, observed>>

(* The command lines that are tried: message arguments, then options *)

\* the largest number of options on a command line
MaxOptions == 2

\* the message arguments of a command line
MessageArguments ==
  { <<>>,
    <<<<"h", "i">>>>,
    <<<<"a", "*", "b", ".">>, <<"c", "_", "d", "!">>>>,
    <<<<" ", "*", "h", "i", "*", " ">>>>,
    <<<<"1", "-", "2", "@", "a", backtick, "\\", "b">>>>,
    <<<<" ">>>> }

\* the options of a command line, each with the argument that follows it
Options ==
  { <<channelOpt, <<"n", "e", "w", "s">>>>,
    <<<<"-", "-", "c", "h", "a", "n", "n", "e", "l", "=", "N", "e", "w", "s">>>>,
    <<channelOpt, <<"u", "n", "k", "n", "o", "w", "n">>>>,
    <<channelOpt>>,
    <<allOpt>>,
    <<parseModeOpt, <<"m", "a", "r", "k", "d", "o", "w", "n", "v", "2">>>>,
    <<<<"-", "-", "p", "a", "r", "s", "e", "-", "m", "o", "d", "e", "=", "H", "T", "M", "L">>>>,
    <<parseModeOpt, <<"v", "3">>>>,
    <<rawOpt>>,
    <<buttonOpt, <<"V", "i", "s", "i", "t", "|", "h", "t", "t", "p", "s", ":", "/", "/", "t", ".", "m", "e">>>>,
    <<buttonOpt, <<"V", "i", "s", "i", "t">>>>,
    <<<<"-", "-", "v", "e", "r", "b", "o", "s", "e">>>> }

\* the sequences of at most n options
RECURSIVE OptionLists(_)
OptionLists(n) ==
  IF n = 0 THEN {<<>>}
  ELSE LET shorter == OptionLists(n - 1) IN
         shorter \cup {l \o opt : l \in shorter, opt \in Options}

Argvs == {m \o l : m \in MessageArguments, l \in OptionLists(MaxOptions)} \cup {<<help>>, <<h>>}

\* what the POST of a command-line send is answered with
CliErrors == { httpError(401, <<"Unauthorized">>), axiosError("Network Error", <<>>, TRUE),
               bodyless(502) }

\* the tool is run once, with any command line
run ==
  /\ cli.phase = "unstarted"
  /\ \E a \in Argvs : telefy(a)

NextCli ==
  \/ run
  \/ \E data \in Responses : postResolved(1, data)
  \/ \E error \in CliErrors : postRejected(1, error)
  \/ mainReturned
  \/ mainCaught

SpecCli == Init /\ [][NextCli]_vars

-----------------------------------------------------------------------------
(* What the specification says of a call's inputs, stated on the parameters *)

\* text is a string of 1 to 4096 characters
TextOk(t) == t.type = "string" /\ t.n >= 1 /\ t.n <= 4096

\* parseMode is exactly one of the three modes
ModeOk(m) == m \in {"Markdown", "HTML", "MarkdownV2"}

\* buttons is a sequence of rows of buttons that all have a text and a url
ButtonsOk(b) ==
  /\ b.isArray
  /\ \A r \in 1..Len(b.rows) :
       /\ b.rows[r].isArray
       /\ \A j \in 1..Len(b.rows[r].items) :
            /\ b.rows[r].items[j].text.type = "string" /\ b.rows[r].items[j].text.n > 0
            /\ b.rows[r].items[j].url.type = "string" /\ b.rows[r].items[j].url.n > 0

InputOk(a) ==
  /\ TextOk(a.text)
  /\ ModeOk(a.parseMode)
  /\ a.op = "sendTGMessageWithButtons" => ButtonsOk(a.buttons)

\* the error a call threw is one of validateInputs or validateButtons
ThrewValidationError(i) ==
  /\ pc[i] = "thrown"
  /\ \/ err[i][1].message \in
          { "Text parameter must be a non-empty string",
            "Message text exceeds 4096 characters",
            "Buttons must be an array of arrays",
            "Each button row must be an array",
            "Each button must have text and url properties" }
     \/ err[i][1].message = "Invalid parseMode: " \o args[i].parseMode

\* the error a call threw is one of validateInputs
ThrewMessageValidationError(i) ==
  /\ pc[i] = "thrown"
  /\ \/ err[i][1].message \in
          { "Text parameter must be a non-empty string",
            "Message text exceeds 4096 characters" }
     \/ err[i][1].message = "Invalid parseMode: " \o args[i].parseMode

\* the messages of the classification table that name channel `name`
ClassifiedMessages(name) ==
  LET on == " on channel \"" \o Str(name) \o "\": " IN
  UNION { LET details ==
                IF e.response = <<>>
                  THEN {"Could not connect to Telegram API", e.message}
                  ELSE LET d == orElse(e.response[1].data[1].description,
                                       "Unknown Telegram API error")
                       IN  {d, d \o " (Status: " \o ToString(e.response[1].status) \o ")"}
          IN  { kind \o on \o detail :
                  kind \in {"Bad Request", "Unauthorized", "Forbidden", "Not Found",
                            "Telegram API error", "Network error", "Unexpected error"},
                  detail \in details }
        : e \in AxiosErrors }

\* a button's text (or url) is missing, empty or falsy
Missing(v) == v.type = "undefined" \/ (v.type = "string" /\ v.n = 0)
                \/ (v.type = "number" /\ v.n = 0)

\* the rows of b that are not an array or hold a button without text or url
FaultyRows(b) ==
  { r \in 1..Len(b.rows) :
      \/ ~b.rows[r].isArray
      \/ \E j \in 1..Len(b.rows[r].items) :
            Missing(b.rows[r].items[j].text) \/ Missing(b.rows[r].items[j].url) }

\* the error a call threw is one of validateButtons
ThrewButtonError(i) ==
  /\ pc[i] = "thrown"
  /\ err[i][1].message \in
       { "Buttons must be an array of arrays",
         "Each button row must be an array",
         "Each button must have text and url properties" }

\* the rows of the mapping table whose condition failure e meets
TableRows(e) ==
  { r \in {"HTTP 400", "HTTP 401", "HTTP 403", "HTTP 404", "other HTTP status",
           "request sent, no response", "any other exception"} :
      CASE r = "HTTP 400" -> e.response # <<>> /\ e.response[1].status = 400
        [] r = "HTTP 401" -> e.response # <<>> /\ e.response[1].status = 401
        [] r = "HTTP 403" -> e.response # <<>> /\ e.response[1].status = 403
        [] r = "HTTP 404" -> e.response # <<>> /\ e.response[1].status = 404
        [] r = "other HTTP status" ->
             e.response # <<>> /\ e.response[1].status \notin {400, 401, 403, 404}
        [] r = "request sent, no response" -> e.response = <<>> /\ e.request
        [] OTHER -> e.response = <<>> /\ ~e.request }

\* the message of row r of the mapping table for failure e on channel ch; the
\* <api description> of a response that carries none is "Unknown Telegram API error"
TableMessage(r, e, ch) ==
  LET on == " on channel \"" \o Str(ch) \o "\": "
      description ==
        IF e.response = <<>> THEN ""
        ELSE IF e.response[1].data = <<>> THEN "Unknown Telegram API error"
        ELSE IF e.response[1].data[1].description \in {<<>>, <<"">>}
          THEN "Unknown Telegram API error"
        ELSE e.response[1].data[1].description[1]
  IN  CASE r = "HTTP 400" -> "Bad Request" \o on \o description
        [] r = "HTTP 401" -> "Unauthorized" \o on \o description
        [] r = "HTTP 403" -> "Forbidden" \o on \o description
        [] r = "HTTP 404" -> "Not Found" \o on \o description
        [] r = "other HTTP status" ->
             "Telegram API error" \o on \o description
               \o " (Status: " \o ToString(e.response[1].status) \o ")"
        [] r = "request sent, no response" ->
             "Network error" \o on \o "Could not connect to Telegram API"
        [] OTHER -> "Unexpected error" \o on \o e.message

\* key has the form CHANNEL_<NAME>_TOKEN
TokenForm(key) ==
  /\ Len(key) >= Len(CHANNEL_) + Len(_TOKEN)
  /\ SubSeq(key, 1, Len(CHANNEL_)) = CHANNEL_
  /\ SubSeq(key, Len(key) - Len(_TOKEN) + 1, Len(key)) = _TOKEN

\* the <NAME> of a key of that form
NameOf(key) == SubSeq(key, Len(CHANNEL_) + 1, Len(key) - Len(_TOKEN))

\* the places in the environment of the keys of that form
TokenEntries == {k \in 1..Len(env) : TokenForm(env[k].key)}

\* the value of the chat id key paired with token entry k, names being compared
\* without regard to case: "" when there is none
PairedChatId(k) ==
  LET paired == {j \in 1..Len(env) :
                   /\ Len(env[j].key) >= Len(CHANNEL_) + Len(_CHAT_ID)
                   /\ SubSeq(env[j].key, 1, Len(CHANNEL_)) = CHANNEL_
                   /\ SubSeq(env[j].key, Len(env[j].key) - Len(_CHAT_ID) + 1, Len(env[j].key))
                        = _CHAT_ID
                   /\ SubSeq(env[j].key, Len(CHANNEL_) + 1, Len(env[j].key) - Len(_CHAT_ID))
                        = toUpperCase(NameOf(env[k].key))}
  IN  IF paired = {} THEN "" ELSE env[CHOOSE j \in paired : TRUE].value

\* token entry k has a token and a chat id
Complete(k) == env[k].value # "" /\ PairedChatId(k) # ""

\* the places of the POSTs of invocation i that failed
FailedPosts(i) == {k \in 1..Len(posts[i]) : posts[i][k].state = "failed"}

Least(S) == CHOOSE k \in S : \A m \in S : k <= m

-----------------------------------------------------------------------------
C2_AllOrNothing ==
  \A i \in Invocations :
    /\ ret[i] # <<>> => pc[i] = "returned"
    /\ pc[i] = "thrown" => ret[i] = <<>> /\ err[i] # <<>>
    /\ pc[i] = "returned" =>
         /\ ret[i] # <<>>
         /\ err[i] = <<>>
         /\ IF args[i].channel = all
              THEN mapKeys(targets[i]) = mapKeys(channels)
              ELSE Len(targets[i]) = 1
         /\ Len(ret[i][1]) = Len(targets[i])
         /\ Len(posts[i]) = Len(targets[i])
         /\ \A j \in 1..Len(targets[i]) :
              /\ posts[i][j].state = "succeeded"
              /\ posts[i][j].channel = targets[i][j].name
              /\ ret[i][1][j].channel = targets[i][j].name
              /\ ret[i][1][j].response \in Responses

\* a broadcast to three channels has returned its three results
C2_Witness ==
  \E i \in Invocations :
    /\ pc[i] = "returned"
    /\ args[i].channel = all
    /\ Len(ret[i][1]) = 3

(* C3: no retries.  Within one invocation no channel receives more than one  *)
(* POST, whether the POST succeeds or fails.                                 *)
C3_NoRetry ==
  \A i \in Invocations :
    \A j, k \in 1..Len(posts[i]) :
      posts[i][j].channel = posts[i][k].channel => j = k

\* a POST has failed and the call has thrown
C3_Witness ==
  \E i \in Invocations :
    /\ pc[i] = "thrown"
    /\ Len(posts[i]) = 2
    /\ posts[i][2].state = "failed"
    /\ posts[i][1].channel # posts[i][2].channel

(* C4: sequential dispatch.  At most one POST of an invocation is in flight, *)
(* and a POST is issued only after every earlier POST of the invocation has  *)
(* completed successfully.                                                   *)
C4_Sequential ==
  \A i \in Invocations :
    /\ Cardinality({k \in 1..Len(posts[i]) : posts[i][k].state = "pending"}) <= 1
    /\ \A k \in 1..(Len(posts[i]) - 1) : posts[i][k].state = "succeeded"
    /\ (\E k \in 1..Len(posts[i]) : posts[i][k].state = "pending") <=> pc[i] = "awaiting"

\* the second POST is in flight, the first has succeeded
C4_Witness ==
  \E i \in Invocations :
    /\ pc[i] = "awaiting"
    /\ Len(targets[i]) = 3
    /\ Len(posts[i]) = 2
    /\ posts[i][1].state = "succeeded"
    /\ posts[i][2].state = "pending"

(* C5: channel resolution.  For a call with valid inputs, the selector "all" *)
(* resolves to every channel of the registry in the registry's order; any    *)
(* other selector whose lowercase form is a registry name resolves to        *)
(* exactly that channel, and when such a call returns it has issued exactly  *)
(* one POST, to that channel's baseUrl + "/sendMessage" with its chatId.     *)
C5_Resolution ==
  \A i \in Invocations :
    (pc[i] # "idle" /\ InputOk(args[i])) =>
      IF args[i].channel = all
        THEN targets[i] = channels
        ELSE \A c \in 1..Len(channels) :
               channels[c].name = toLowerCase(args[i].channel) =>
                 /\ targets[i] = <<channels[c]>>
                 /\ Len(posts[i]) = 1
                 /\ posts[i][1].url = channels[c].baseUrl \o "/sendMessage"
                 /\ posts[i][1].data.chat_id = channels[c].chatId
                 /\ pc[i] = "returned" =>
                      /\ Len(ret[i][1]) = 1
                      /\ ret[i][1][1].channel = channels[c].name

\* a call to "News" has returned after its one POST, in a registry of three
C5_Witness ==
  \E i \in Invocations :
    /\ pc[i] = "returned"
    /\ args[i].channel = <<"N","e","w","s">>
    /\ Len(channels) = 3
    /\ Len(posts[i]) = 1

(* C6: a call with valid text, parse mode and buttons to a channel name      *)
(* whose lowercase form is not in the registry throws 'Channel "<name>" not  *)
(* found', <name> being the lowercase form, with a suggestion that lists     *)
(* every configured channel name joined by ", " in the registry's order, and *)
(* issues no POST.                                                           *)
C6_ChannelNotFound ==
  \A i \in Invocations :
    ( /\ pc[i] # "idle"
      /\ InputOk(args[i])
      /\ args[i].channel # all
      /\ \A c \in 1..Len(channels) : channels[c].name # toLowerCase(args[i].channel) ) =>
        /\ pc[i] = "thrown"
        /\ err[i][1].message = "Channel \"" \o Str(toLowerCase(args[i].channel)) \o "\" not found"
        /\ err[i][1].suggestion =
             "Available channels: "
               \o join([c \in 1..Len(channels) |-> Str(channels[c].name)], ", ")
               \o ". Check your .env file."
        /\ posts[i] = <<>>
        /\ targets[i] = <<>>

\* a call to "Unknown" has thrown, in a registry of three
C6_Witness ==
  \E i \in Invocations :
    /\ pc[i] = "thrown"
    /\ InputOk(args[i])
    /\ args[i].channel = <<"U","n","k","n","o","w","n">>
    /\ Len(channels) = 3
    /\ args[i].op = "sendTGMessageWithButtons"

(* C7: validation precedes all I/O.  A call that rejects its text, parse     *)
(* mode or buttons has issued no POST, for a named channel and for "all"     *)
(* alike; and every call with such an input is rejected.                     *)
C7_ValidationBeforeIO ==
  \A i \in Invocations :
    /\ ThrewValidationError(i) => posts[i] = <<>>
    /\ (pc[i] # "idle" /\ ~InputOk(args[i])) => ThrewValidationError(i) /\ posts[i] = <<>>

\* a broadcast with an empty text was rejected
C7_Witness ==
  \E i \in Invocations :
    /\ ThrewValidationError(i)
    /\ args[i].channel = all
    /\ args[i].text = JsString(0)
    /\ Len(channels) = 3

(* C8: for every text of 1 to 4096 characters, 1 and 4096 included, and      *)
(* every parse mode of Markdown, HTML and MarkdownV2, message validation     *)
(* does not fail.                                                            *)
C8_ValidAccepted ==
  \A i \in Invocations :
    (pc[i] # "idle" /\ TextOk(args[i].text) /\ ModeOk(args[i].parseMode)) =>
      ~ThrewMessageValidationError(i)

\* a text of exactly 4096 characters was sent
C8_Witness ==
  \E i \in Invocations :
    /\ pc[i] = "returned"
    /\ args[i].text = JsString(4096)
    /\ args[i].parseMode = "MarkdownV2"

(* C9: for every text that is empty or not a string, message validation      *)
(* fails with "Text parameter must be a non-empty string", and for every     *)
(* text of more than 4096 characters it fails with "Message text exceeds     *)
(* 4096 characters", whatever the parse mode.                                *)
C9_BadTextRejected ==
  \A i \in Invocations :
    pc[i] # "idle" =>
      /\ (args[i].text.type # "string" \/ args[i].text.n = 0) =>
           /\ pc[i] = "thrown"
           /\ err[i][1].message = "Text parameter must be a non-empty string"
      /\ (args[i].text.type = "string" /\ args[i].text.n > 4096) =>
           /\ pc[i] = "thrown"
           /\ err[i][1].message = "Message text exceeds 4096 characters"

\* a text of 4097 characters was rejected, the parse mode being invalid too
C9_Witness ==
  \E i \in Invocations :
    /\ pc[i] = "thrown"
    /\ args[i].text = JsString(4097)
    /\ args[i].parseMode = "INVALID"

(* C10: for every parse mode other than exactly Markdown, HTML or            *)
(* MarkdownV2, validation of an otherwise valid text fails with              *)
(* "Invalid parseMode: <value>", <value> being the parse mode given.         *)
C10_BadParseModeRejected ==
  \A i \in Invocations :
    (pc[i] # "idle" /\ TextOk(args[i].text) /\ ~ModeOk(args[i].parseMode)) =>
      /\ pc[i] = "thrown"
      /\ err[i][1].message = "Invalid parseMode: " \o args[i].parseMode
      /\ posts[i] = <<>>

\* the parse mode "markdown" was rejected
C10_Witness ==
  \E i \in Invocations :
    /\ pc[i] = "thrown"
    /\ TextOk(args[i].text)
    /\ args[i].parseMode = "markdown"

(* C11: button validation.  For a buttons call whose text and parse mode are *)
(* valid: a buttons value that is not an array fails with "Buttons must be   *)
(* an array of arrays"; an array fails, at its first faulty row, with "Each  *)
(* button row must be an array" when that row is not an array and with "Each *)
(* button must have text and url properties" when a button of that row has a *)
(* missing, empty or falsy text or url; and every array of rows whose        *)
(* buttons all have a non-empty text and url is accepted.                    *)
C11_ButtonValidation ==
  \A i \in Invocations :
    ( /\ pc[i] # "idle"
      /\ args[i].op = "sendTGMessageWithButtons"
      /\ TextOk(args[i].text) /\ ModeOk(args[i].parseMode) ) =>
      LET b == args[i].buttons IN
        /\ ~b.isArray =>
              /\ pc[i] = "thrown"
              /\ err[i][1].message = "Buttons must be an array of arrays"
        /\ (b.isArray /\ FaultyRows(b) # {}) =>
              /\ pc[i] = "thrown"
              /\ posts[i] = <<>>
              /\ err[i][1].message =
                   IF ~b.rows[Least(FaultyRows(b))].isArray
                     THEN "Each button row must be an array"
                     ELSE "Each button must have text and url properties"
        /\ ButtonsOk(b) => ~ThrewButtonError(i)

\* a row that is not an array was rejected before a later row's button without url
C11_Witness ==
  \E i \in Invocations :
    /\ pc[i] = "thrown"
    /\ TextOk(args[i].text) /\ ModeOk(args[i].parseMode)
    /\ args[i].buttons.isArray
    /\ Len(args[i].buttons.rows) = 2
    /\ ~args[i].buttons.rows[1].isArray
    /\ args[i].buttons.rows[2].items = <<NoUrl>>
    /\ err[i][1].message = "Each button row must be an array"

(* C12: error classification is total and follows the mapping table.  For   *)
(* every failure and channel name <ch>, exactly one row of the table applies *)
(* and handleAxiosError returns that row's error: a failure carrying an HTTP *)
(* response is classified by its status (400 Bad Request, 401 Unauthorized,  *)
(* 403 Forbidden, 404 Not Found, any other status "Telegram API error ...    *)
(* (Status: <code>)"), a failure with a request and no response is "Network  *)
(* error", anything else is "Unexpected error"; the message names <ch> and   *)
(* the suggestion is not empty.                                              *)
C12_Classification ==
  classified # <<>> =>
    LET e       == classified[1].error
        ch      == classified[1].channel
        outcome == classified[1].outcome
    IN  /\ Cardinality(TableRows(e)) = 1
        /\ outcome.error = <<>>
        /\ outcome.value.name = "TelegramBotError"
        /\ outcome.value.message = TableMessage(CHOOSE r \in TableRows(e) : TRUE, e, ch)
        /\ outcome.value.suggestion # ""

(* C13: registry construction.  In a configuration all of whose keys of the *)
(* form CHANNEL_<NAME>_TOKEN have a non-empty value and a non-empty paired   *)
(* CHANNEL_<NAME>_CHAT_ID, every such key yields exactly one channel, keyed  *)
(* by <NAME> in lower case, with that token, that chat id and baseUrl =      *)
(* "https://api.telegram.org/bot" + token; and every channel of the registry *)
(* comes from a key of that form: keys of another form contribute none.      *)
C13_RegistryConstruction ==
  /\ (TokenEntries # {} /\ \A k \in TokenEntries : Complete(k)) =>
        /\ initError = <<>>
        /\ \A k \in TokenEntries :
             LET named == {c \in 1..Len(channels) :
                             channels[c].name = toLowerCase(NameOf(env[k].key))}
             IN  /\ Cardinality(named) = 1
                 /\ \A c \in named :
                      /\ channels[c].token = env[k].value
                      /\ channels[c].chatId = PairedChatId(k)
                      /\ channels[c].baseUrl = "https://api.telegram.org/bot" \o env[k].value
  /\ \A c \in 1..Len(channels) :
       \E k \in TokenEntries : channels[c].name = toLowerCase(NameOf(env[k].key))

C15_IncompleteAborts ==
  LET incomplete == {k \in TokenEntries : ~Complete(k)} IN
  incomplete # {} =>
    /\ initError # <<>>
    /\ initError[1].message \in
         { LET name == "\"" \o Str(toLowerCase(NameOf(env[k].key))) \o "\"" IN
             IF env[k].value = "" THEN "Invalid token for channel " \o name
                                  ELSE "Missing chat ID for channel " \o name
           : k \in incomplete }
    /\ channels = <<>>
    /\ \A i \in Invocations : pc[i] = "idle" /\ posts[i] = <<>> /\ ret[i] = <<>>

\* construction has failed on the second definition, the first being complete
C15_Witness ==
  /\ initError # <<>>
  /\ initError[1].message = "Missing chat ID for channel \"alert\""
  /\ Len(env) = 5
  /\ 1 \in TokenEntries /\ Complete(1)
  /\ channels = <<>>

(* C16: registry invariant.  In every state after a successful              *)
(* initialisation, whatever getChannels, sendTGMessage and                   *)
(* sendTGMessageWithButtons calls were made and however they ended, the      *)
(* registry is not empty and every entry has a non-empty token and a         *)
(* non-empty chat id.                                                        *)
C16_RegistryInvariant ==
  initError = <<>> =>
    /\ Len(channels) >= 1
    /\ \A c \in 1..Len(channels) : channels[c].token # "" /\ channels[c].chatId # ""

\* a send has thrown after a failed POST and getChannels has been called
C16_Witness ==
  /\ initError = <<>>
  /\ observed # <<>>
  /\ pc[1] = "thrown"
  /\ FailedPosts(1) # {}
  /\ Len(channels) = 3

(* C17: getChannels has no side effect and the send operations only read the *)
(* registry.  After any sequence of getChannels and send calls the registry  *)
(* has the keys, in the order, with the values it had right after            *)
(* initialisation, and that is what every getChannels call has returned.     *)
C17_RegistryReadOnly ==
  initError = <<>> =>
    /\ channels = loadChannels(env, 1, <<>>).value
    /\ observed # <<>> => observed[1] = loadChannels(env, 1, <<>>).value

\* getChannels has been called around a send to a named channel that returned
C17_Witness ==
  /\ observed # <<>>
  /\ Len(observed[1]) = 3
  /\ pc[1] = "returned"
  /\ args[1].channel = <<"n","e","w","s">>

(* C18, as claimed: the body of a POST holds reply_markup, with              *)
(* inline_keyboard the caller's button rows, exactly when buttons were       *)
(* given; it is omitted for every sendTGMessage call and for a buttons call  *)
(* whose button structure holds no button.                                   *)
C18_ReplyMarkupIffButtons ==
  \A i \in Invocations : \A k \in 1..Len(posts[i]) :
    LET given == /\ args[i].op = "sendTGMessageWithButtons"
                 /\ \E r \in 1..Len(args[i].buttons.rows) : args[i].buttons.rows[r].items # <<>>
    IN  IF given THEN posts[i][k].data.reply_markup = <<markup(args[i].buttons)>>
                 ELSE posts[i][k].data.reply_markup = <<>>

(* C18, amended: the body of a POST holds reply_markup exactly when the call *)
(* is a sendTGMessageWithButtons call, with inline_keyboard the buttons      *)
(* argument ([[]] when none was passed), also when that structure holds no   *)
(* button; it is omitted for every sendTGMessage call.                       *)
C18_ReplyMarkupIffButtonsCall ==
  \A i \in Invocations : \A k \in 1..Len(posts[i]) :
    IF args[i].op = "sendTGMessageWithButtons"
      THEN posts[i][k].data.reply_markup = <<markup(args[i].buttons)>>
      ELSE posts[i][k].data.reply_markup = <<>>

\* a buttons call without buttons has posted a reply_markup with inline_keyboard [[]]
C18_Witness ==
  \E i \in Invocations :
    /\ args[i].op = "sendTGMessageWithButtons"
    /\ args[i].buttons = defaultButtons
    /\ Len(posts[i]) = 2
    /\ posts[i][2].data.reply_markup = <<markup(defaultButtons)>>

\* the state of invocation i
invocation(i) == <<pc[i], args[i], targets[i], results[i], posts[i], ret[i], err[i]>>

(* C19: concurrent send invocations do not interfere.  In every interleaving *)
(* of two invocations, each invocation's POSTs go to its resolved channels   *)
(* in order, one at a time, and stop at its first failure; its result list   *)
(* holds one entry per POST of its own that succeeded, in order; a step of   *)
(* one invocation, a failure included, leaves the state of the other as it   *)
(* was; and no step changes the registry.                                    *)
C19_NoInterference ==
  /\ [](\A i \in Invocations :
          /\ Len(posts[i]) <= Len(targets[i])
          /\ \A k \in 1..Len(posts[i]) : posts[i][k].channel = targets[i][k].name
          /\ \A k \in 1..(Len(posts[i]) - 1) : posts[i][k].state = "succeeded"
          /\ FailedPosts(i) # {} => pc[i] = "thrown" /\ ret[i] = <<>>
          /\ Len(results[i]) = Cardinality({k \in 1..Len(posts[i]) :
                                               posts[i][k].state = "succeeded"})
          /\ \A k \in 1..Len(results[i]) : results[i][k].channel = posts[i][k].channel
          /\ pc[i] = "returned" => ret[i] = <<results[i]>> /\ Len(results[i]) = Len(targets[i]))
  /\ [][ /\ channels' = channels
         /\ \A i, j \in Invocations :
              (i # j /\ invocation(i)' # invocation(i)) => invocation(j)' = invocation(j)
         /\ \A i \in Invocations :
              (results'[i] # results[i] /\ results'[i] # <<>>) =>
                /\ pc[i] = "awaiting"
                /\ Len(results'[i]) = Len(results[i]) + 1
                /\ SubSeq(results'[i], 1, Len(results[i])) = results[i] ]_vars

\* one broadcast has thrown at its second POST while the other has its third in flight
C19_Witness ==
  /\ pc[1] = "thrown"
  /\ Len(posts[1]) = 2
  /\ posts[1][2].state = "failed"
  /\ pc[2] = "awaiting"
  /\ Len(posts[2]) = 3
  /\ Len(results[2]) = 2

(* C20: every send invocation terminates.  Provided every POST that is       *)
(* issued settles, a sendTGMessage or sendTGMessageWithButtons call that has *)
(* started eventually has returned its result list or thrown an error, and   *)
(* it never issues more than one POST per resolved channel.                  *)
C20_Terminates ==
  \A i \in Sequential :
    /\ (pc[i] = "awaiting") ~> (pc[i] \in {"returned", "thrown"})
    /\ [](pc[i] \in {"awaiting", "returned", "thrown", "idle"})
    /\ [](Len(posts[i]) <= Len(targets[i]))

\* a broadcast to three channels has returned after its three POSTs
C20_Witness ==
  \E i \in Sequential :
    /\ pc[i] = "returned"
    /\ Len(targets[i]) = 3
    /\ Len(posts[i]) = 3
    /\ args[i].op = "sendTGMessageWithButtons"

-----------------------------------------------------------------------------
\* the checks of a send call, in the order the specification gives them
Checks == <<"text emptiness", "text length", "parse mode", "button structure",
            "channel resolution">>

\* parameters a fail the check named c
FailsCheck(a, c) ==
  CASE c = "text emptiness" -> a.text.type # "string" \/ a.text.n = 0
    [] c = "text length" -> a.text.type = "string" /\ a.text.n > 4096
    [] c = "parse mode" -> ~ModeOk(a.parseMode)
    [] c = "button structure" -> a.op = "sendTGMessageWithButtons" /\ ~ButtonsOk(a.buttons)
    [] OTHER -> a.channel # all
                  /\ \A c2 \in 1..Len(channels) : channels[c2].name # toLowerCase(a.channel)

\* the places in Checks of the checks that parameters a fail
FailingChecks(a) == {k \in 1..Len(Checks) : FailsCheck(a, Checks[k])}

\* the check whose error invocation i threw, "" when it threw none of them
CheckOf(i) ==
  IF pc[i] # "thrown" THEN ""
  ELSE LET message == err[i][1].message IN
    CASE message = "Text parameter must be a non-empty string" -> "text emptiness"
      [] message = "Message text exceeds 4096 characters" -> "text length"
      [] message = "Invalid parseMode: " \o args[i].parseMode -> "parse mode"
      [] ThrewButtonError(i) -> "button structure"
      [] message = "Channel \"" \o Str(toLowerCase(args[i].channel)) \o "\" not found" ->
           "channel resolution"
      [] OTHER -> ""

(* C25: the check order within a send call is fixed: text emptiness, text    *)
(* length, parse mode, button structure (buttons operation), channel         *)
(* resolution.  A call reports the error of the earliest check its inputs    *)
(* fail, and no check's error when they fail none; so a call with an invalid *)
(* text and an unknown channel reports the text error, never "Channel not    *)
(* found".                                                                   *)
C25_CheckOrder ==
  \A i \in Invocations :
    pc[i] # "idle" =>
      /\ CheckOf(i) = IF FailingChecks(args[i]) = {} THEN ""
                      ELSE Checks[Least(FailingChecks(args[i]))]
      /\ CheckOf(i) # "" => posts[i] = <<>>

\* a buttons call failing all of text length, parse mode, button structure and
\* channel resolution has reported the text length
C25_Witness ==
  \E i \in Invocations :
    /\ pc[i] = "thrown"
    /\ FailingChecks(args[i]) = {2, 3, 4, 5}
    /\ err[i][1].message = "Message text exceeds 4096 characters"

(* C26: the broadcast selector is matched exactly and case-sensitively while *)
(* channel names are case-folded.  Of the calls with valid inputs, only      *)
(* those whose selector is the literal "all" broadcast, and they target      *)
(* every channel of the registry, also when one of them is named "all"; a    *)
(* selector that differs from "all" in case ("ALL", "All") is looked up as   *)
(* the channel named "all": it targets that channel alone when the registry  *)
(* has it and fails with 'Channel "all" not found' otherwise.                *)
C26_BroadcastSelector ==
  \A i \in Invocations :
    (pc[i] # "idle" /\ InputOk(args[i])) =>
      /\ args[i].channel = all =>
            /\ pc[i] # "thrown" \/ posts[i] # <<>>
            /\ mapKeys(targets[i]) = mapKeys(channels)
            /\ \A k \in 1..Len(posts[i]) : posts[i][k].channel = channels[k].name
            /\ pc[i] = "returned" => Len(posts[i]) = Len(channels)
      /\ (args[i].channel # all /\ toLowerCase(args[i].channel) = all) =>
            IF \E c \in 1..Len(channels) : channels[c].name = all
              THEN /\ mapKeys(targets[i]) = <<all>>
                   /\ Len(posts[i]) = 1
                   /\ posts[i][1].channel = all
              ELSE /\ pc[i] = "thrown"
                   /\ err[i][1].message = "Channel \"all\" not found"
                   /\ posts[i] = <<>>
      /\ (pc[i] = "returned" /\ Len(channels) > 1 /\ Len(ret[i][1]) = Len(channels)) =>
            args[i].channel = all

\* in a registry of three channels, one of them named "all", the selector "All"
\* has reached that channel alone
C26_Witness ==
  \E i \in Invocations :
    /\ pc[i] = "returned"
    /\ args[i].channel = <<"A","l","l">>
    /\ Len(channels) = 3
    /\ Len(ret[i][1]) = 1
    /\ ret[i][1][1].channel = all

-----------------------------------------------------------------------------
\* the command line has been given to the library: main() has made its send call
CliCalled == cli.finalMessage # <<>>

(* C21: CLI outcome reporting.  When the send call of the command-line tool  *)
(* fails, the tool prints "Error: <message>" and, if the error has a         *)
(* suggestion, "Suggestion: <suggestion>", exits with a non-zero status and  *)
(* prints no success line; when the call succeeds, it prints exactly one     *)
(* success line per returned result, in the order of the results.            *)
C21_CliReporting ==
  /\ (CliCalled /\ cli.phase = "sending") => cli.stdout = <<>> /\ cli.stderr = <<>>
  /\ (CliCalled /\ cli.phase = "exited") =>
        /\ pc[1] \in {"thrown", "returned"}
        /\ pc[1] = "thrown" =>
              /\ cli.stdout = <<>>
              /\ cli.exitCode # <<>> /\ cli.exitCode[1] # 0
              /\ Len(cli.stderr) >= 1
              /\ cli.stderr[1] = "Error: " \o err[1][1].message
              /\ IF err[1][1].suggestion # ""
                   THEN cli.stderr = <<cli.stderr[1], "Suggestion: " \o err[1][1].suggestion>>
                   ELSE cli.stderr = <<cli.stderr[1]>>
        /\ pc[1] = "returned" =>
              /\ cli.stderr = <<>>
              /\ Len(cli.stdout) = Len(ret[1][1])
              /\ \A j \in 1..Len(ret[1][1]) :
                   cli.stdout[j] = "Message sent successfully to channel \""
                                     \o Str(ret[1][1][j].channel) \o "\""

\* a broadcast to three channels failed at the second: the error and its suggestion
\* are on stderr, nothing is on stdout, and the exit status is 1
C21_Witness ==
  /\ cli.phase = "exited"
  /\ pc[1] = "thrown"
  /\ Len(targets[1]) = 3
  /\ Len(posts[1]) = 2
  /\ Len(cli.stderr) = 2
  /\ cli.stdout = <<>>
  /\ cli.exitCode = <<1>>

\* the option named by argument arg: what stands before its first "="
OptionOf(arg) == IF \E j \in 1..Len(arg) : arg[j] = "="
                   THEN SubSeq(arg, 1, (CHOOSE j \in 1..Len(arg) :
                                          arg[j] = "=" /\ \A m \in 1..(j - 1) : arg[m] # "=") - 1)
                   ELSE arg

\* the command line uses the option opt
Uses(opt) == \E j \in 1..Len(cli.argv) : OptionOf(cli.argv[j]) = opt

\* the command line was parsed and has a message: the tool has come to choose the channel
CliParsed ==
  /\ cli.parsed # <<>>
  /\ \E j \in 1..Len(cli.parsed[1].messageParts) :
        \E m \in 1..Len(cli.parsed[1].messageParts[j]) :
          cli.parsed[1].messageParts[j][m] \notin WhiteSpace

(* C22: CLI default channel.  When the command line gives neither --channel  *)
(* nor --all, the tool sends to the single configured channel if exactly one *)
(* channel is configured; if two or more are configured it reports that a    *)
(* channel must be specified and exits without calling a send operation.     *)
C22_DefaultChannel ==
  (CliParsed /\ ~Uses(channelOpt) /\ ~Uses(allOpt)) =>
    /\ Len(channels) = 1 =>
          /\ cli.stderr # <<>> =>
                cli.stderr[1] # "Error: Please specify a channel with --channel <name> or use --all."
          /\ CliCalled =>
                /\ args[1].channel = channels[1].name
                /\ \A k \in 1..Len(posts[1]) : posts[1][k].channel = channels[1].name
    /\ Len(channels) >= 2 =>
          /\ cli.phase = "exited"
          /\ cli.stderr # <<>>
          /\ cli.stderr[1] = "Error: Please specify a channel with --channel <name> or use --all."
          /\ cli.exitCode = <<1>>
          /\ ~CliCalled
          /\ pc[1] = "idle" /\ posts[1] = <<>>

(* C24: the tool rejects every command line that uses both --channel and     *)
(* --all, whichever comes first ("--all --channel news" and "--channel news  *)
(* --all" alike), with "Cannot use --channel and --all together." and        *)
(* without calling a send operation.                                         *)
C24_ChannelAllConflict ==
  (CliParsed /\ Uses(channelOpt) /\ Uses(allOpt)) =>
    /\ cli.phase = "exited"
    /\ cli.stderr = <<"Error: Cannot use --channel and --all together.">>
    /\ cli.exitCode = <<1>>
    /\ ~CliCalled
    /\ pc[1] = "idle" /\ posts[1] = <<>>

\* the special characters the README lists for MarkdownV2: _*[]()~>#+=|{}.!
Listed == {"_", "*", "[", "]", "(", ")", "~", ">", "#", "+", "=", "|", "{", "}", ".", "!"}

\* text t without the backslashes that stand before a listed character, a backtick or "@"
RECURSIVE Unescaped(_)
Unescaped(t) ==
  IF t = <<>> THEN <<>>
  ELSE IF Len(t) >= 2 /\ t[1] = "\\" /\ t[2] \in Listed \cup {backtick, "@"}
    THEN <<t[2]>> \o Unescaped(SubSeq(t, 3, Len(t)))
  ELSE <<t[1]>> \o Unescaped(Tail(t))

\* every listed character of text t has a backslash before it
ListedEscaped(t) == \A j \in 1..Len(t) : t[j] \in Listed => j > 1 /\ t[j - 1] = "\\"

\* the message arguments of the command line, joined by single spaces
Joined == joinChars(cli.parsed[1].messageParts, <<" ">>)

\* text t without its leading and trailing white space
Trimmed(t) ==
  IF \A j \in 1..Len(t) : t[j] \in WhiteSpace THEN <<>>
  ELSE LET first == CHOOSE j \in 1..Len(t) :
                      t[j] \notin WhiteSpace /\ \A m \in 1..(j - 1) : t[m] \in WhiteSpace
           last  == CHOOSE j \in 1..Len(t) :
                      t[j] \notin WhiteSpace /\ \A m \in (j + 1)..Len(t) : t[m] \in WhiteSpace
       IN  [j \in 1..(last - first + 1) |-> t[first + j - 1]]

(* C23 as stated: when the parse mode is MarkdownV2 and --raw is absent,     *)
(* every listed special character of the message has a backslash before it   *)
(* in the text passed to the library; when --raw is given, or the parse mode *)
(* is Markdown or HTML, the text passed to the library equals the joined     *)
(* message arguments unchanged.                                              *)
C23_CliEscapingUnchanged ==
  CliCalled =>
    IF args[1].parseMode = "MarkdownV2" /\ ~Uses(rawOpt)
      THEN /\ ListedEscaped(cli.finalMessage[1])
           /\ Unescaped(cli.finalMessage[1]) = Trimmed(Joined)
      ELSE cli.finalMessage[1] = Joined

(* C23: CLI MarkdownV2 escaping.  The message is the message arguments       *)
(* joined by single spaces, without its leading and trailing white space.    *)
(* When the parse mode is MarkdownV2 and --raw is absent, the text passed to *)
(* the library is the message with a backslash before every listed special   *)
(* character; when --raw is given, or the parse mode is Markdown or HTML,    *)
(* the text passed to the library is the message, otherwise unchanged.       *)
C23_CliEscaping ==
  CliCalled =>
    /\ args[1].text = JsString(Len(cli.finalMessage[1]))
    /\ IF args[1].parseMode = "MarkdownV2" /\ ~Uses(rawOpt)
         THEN /\ ListedEscaped(cli.finalMessage[1])
              /\ Unescaped(cli.finalMessage[1]) = Trimmed(Joined)
         ELSE cli.finalMessage[1] = Trimmed(Joined)

\* "a*b." "c_d!" sent as MarkdownV2 without --raw: four backslashes were added
C23_Witness ==
  /\ CliCalled
  /\ args[1].parseMode = "MarkdownV2"
  /\ ~Uses(rawOpt)
  /\ Len(cli.parsed[1].messageParts) = 2
  /\ Len(cli.finalMessage[1]) = Len(Joined) + 4
  /\ pc[1] = "returned"

====
